---- MODULE Spec2Model ----
(***************************************************************************)
(* fancontrol.py: discovery of ThinkServer SA120 enclosures, fan telemetry *)
(* (print_speeds) and the fan control page read-modify-write               *)
(* (set_fan_speeds), with the sg_ses transport as the environment.         *)
(*                                                                         *)
(* Byte strings are sequences of one-character strings; a token is a       *)
(* non-empty sequence of non-whitespace characters.                        *)
(***************************************************************************)
EXTENDS Integers, Sequences, FiniteSets, TLC

VARIABLES
    \* A single set_fan_speeds call (SpecEnc):
    out,        \* bytes returned by the control-page read
    speed,      \* the speed argument of the call
    s,          \* the token list when the call ended
    payload,    \* bytes handed to the control-page write
    status,     \* "idle", "written" or the exception raised
    \* A single print_speeds call (SpecFan):
    fan_speeds, \* the list fan_speeds when the call ended
    report,     \* what the call printed about the average
    \* A single find_sa120_devices call (SpecFind):
    world,      \* the device nodes glob yielded, in order
    \* A run of main (Spec); devices and log also in SpecFind:
    devices,    \* the list find_sa120_devices returned
    args,       \* main: the parsed command line
    pc,         \* main: where the run is
    di,         \* main: 1-based position in devices of the loop in progress
    log,        \* the sg_ses commands issued so far, in order
    exit_status \* main: the process exit status, -1 while running

encVars == <<out, speed, s, payload, status>>
fanVars == <<fan_speeds, report>>
findVars == <<world, devices>>
mainVars == <<args, pc, di, log, exit_status>>
vars == <<out, speed, s, payload, status, fan_speeds, report, world, devices,
          args, pc, di, log, exit_status>>

(***************************************************************************)
(* Bounds of the model.                                                    *)
(***************************************************************************)
MaxDumpLen == 130
MaxSpeed == 15
NumSeeds == 2
MaxPaths == 3
MainPaths == 2

(***************************************************************************)
(* Characters and integer helpers.                                         *)
(***************************************************************************)
SP == " "
NL == "\n"
TAB == "\t"

\* bytes.split() with no argument splits on runs of ASCII whitespace.
Whitespace == {SP, NL, TAB, "\r", "\f"}

HexDigits == <<"0", "1", "2", "3", "4", "5", "6", "7",
               "8", "9", "a", "b", "c", "d", "e", "f">>

RECURSIVE BitAnd(_, _)
BitAnd(a, b) ==
    IF a = 0 \/ b = 0 THEN 0
    ELSE (IF a % 2 = 1 /\ b % 2 = 1 THEN 1 ELSE 0) + 2 * BitAnd(a \div 2, b \div 2)

RECURSIVE BitOr(_, _)
BitOr(a, b) ==
    IF a = 0 THEN b
    ELSE IF b = 0 THEN a
    ELSE (IF a % 2 = 1 \/ b % 2 = 1 THEN 1 ELSE 0) + 2 * BitOr(a \div 2, b \div 2)

RECURSIVE ShiftLeft(_, _)
ShiftLeft(a, n) == IF n = 0 THEN a ELSE ShiftLeft(2 * a, n - 1)

\* u'{:x}'.format(n): lower-case hexadecimal, no padding.
RECURSIVE FormatHex(_)
FormatHex(n) ==
    IF n < 16 THEN <<HexDigits[n + 1]>>
    ELSE Append(FormatHex(n \div 16), HexDigits[(n % 16) + 1])

(***************************************************************************)
(* out.split(): the maximal runs of non-whitespace bytes, in order.        *)
(* Recursion is by halves so that its depth stays logarithmic.             *)
(***************************************************************************)
IsTokenStart(text, i) ==
    text[i] \notin Whitespace /\ (i = 1 \/ text[i - 1] \in Whitespace)

IsTokenEnd(text, i) ==
    text[i] \notin Whitespace /\ (i = Len(text) \/ text[i + 1] \in Whitespace)

\* The positions of lo..hi where a token starts, ascending.
RECURSIVE TokenStarts(_, _, _)
TokenStarts(text, lo, hi) ==
    IF lo > hi THEN <<>>
    ELSE IF lo = hi THEN (IF IsTokenStart(text, lo) THEN <<lo>> ELSE <<>>)
    ELSE LET mid == (lo + hi) \div 2 IN
         TokenStarts(text, lo, mid) \o TokenStarts(text, mid + 1, hi)

\* The positions of lo..hi where a token ends, ascending.
RECURSIVE TokenEnds(_, _, _)
TokenEnds(text, lo, hi) ==
    IF lo > hi THEN <<>>
    ELSE IF lo = hi THEN (IF IsTokenEnd(text, lo) THEN <<lo>> ELSE <<>>)
    ELSE LET mid == (lo + hi) \div 2 IN
         TokenEnds(text, lo, mid) \o TokenEnds(text, mid + 1, hi)

Split(text) ==
    LET st == TokenStarts(text, 1, Len(text))
        en == TokenEnds(text, 1, Len(text))
    IN [k \in 1 .. Len(st) |-> SubSeq(text, st[k], en[k])]

\* The concatenation of pieces[lo], ..., pieces[hi].
RECURSIVE Flatten(_, _, _)
Flatten(pieces, lo, hi) ==
    IF lo > hi THEN <<>>
    ELSE IF lo = hi THEN pieces[lo]
    ELSE LET mid == (lo + hi) \div 2 IN
         Flatten(pieces, lo, mid) \o Flatten(pieces, mid + 1, hi)

(***************************************************************************)
(* set_fan_speeds: patch of the six fan slots                              *)
(***************************************************************************)
NumFans == 6
FanSlotBase == 88
FanSlotWidth == 4
SpeedMask == 7
OverrideShift == 5
MinPageTokens == FanSlotBase + FanSlotWidth * NumFans

\* The flag or-ed with the unmasked speed.
SpeedByteUnmasked(sp) == BitOr(ShiftLeft(1, OverrideShift), sp)

\* The last byte of a slot: u'{:x}'.format(1 << 5 | speed & 7).
SpeedByte(sp) == BitOr(ShiftLeft(1, OverrideShift), BitAnd(sp, SpeedMask))

\* The value assigned to s[idx + k] of a slot.
SlotToken(k, sp) ==
    CASE k = 0 -> <<"8", "0">>
      [] k = 1 -> <<"0", "0">>
      [] k = 2 -> <<"0", "0">>
      [] OTHER -> FormatHex(SpeedByte(sp))

\* The 24 assignments s[idx + k] = ... in program order, from fan i, byte k on.
\* A list assignment past the end raises IndexError and leaves the list as
\* patched so far.  (An assignment keeps the length of the list; stating it
\* makes each intermediate list a value before the next assignment.)
RECURSIVE PatchFrom(_, _, _, _)
PatchFrom(toks, i, k, sp) ==
    IF i >= NumFans THEN [err |-> FALSE, s |-> toks]
    ELSE LET idx == FanSlotBase + FanSlotWidth * i IN
         IF idx + k >= Len(toks) THEN [err |-> TRUE, s |-> toks]
         ELSE LET t2 == [toks EXCEPT ![idx + k + 1] = SlotToken(k, sp)] IN
              IF Len(t2) = Len(toks) /\ k = FanSlotWidth - 1
              THEN PatchFrom(t2, i + 1, 0, sp)
              ELSE PatchFrom(t2, i, k + 1, sp)

\* The patch whose loop starts one slot too early.
PatchOneSlotEarly(toks, sp) == PatchFrom(toks, -1, 0, sp)

\* The patch that stops at the end of a short list instead of raising.
PatchNoRaise(toks, sp) == [PatchFrom(toks, 0, 0, sp) EXCEPT !.err = FALSE]

Patch(toks, sp) == PatchFrom(toks, 0, 0, sp)

(***************************************************************************)
(* set_fan_speeds: the output loop                                         *)
(***************************************************************************)
GroupSize == 8
LineSize == 16

\* The loop's variables before the first pass.
LoopStart == [off |-> 0, count |-> 0, output |-> <<>>, done |-> FALSE]

\* The pass that never restarts count at the end of a line.
WritePassNoReset(toks, st) ==
    IF st.done THEN st
    ELSE LET o1 == st.output \o toks[st.off + 1]
             off1 == st.off + 1
             count1 == st.count + 1
             o2 == IF count1 = GroupSize THEN o1 \o <<SP, SP>>
                   ELSE IF count1 = LineSize THEN Append(o1, NL)
                   ELSE Append(o1, SP)
         IN [off |-> off1, count |-> count1, output |-> o2, done |-> off1 >= Len(toks)]

\* One pass of the while True body (lines 100-111); nothing once it has broken
\* out.  off is 0-based as in the source.
WritePass(toks, st) ==
    IF st.done THEN st
    ELSE LET o1 == st.output \o toks[st.off + 1]
             off1 == st.off + 1
             count1 == st.count + 1
             o2 == IF count1 = GroupSize THEN o1 \o <<SP, SP>>
                   ELSE IF count1 = LineSize THEN Append(o1, NL)
                   ELSE Append(o1, SP)
             count2 == IF count1 # GroupSize /\ count1 = LineSize THEN 0 ELSE count1
         IN [off |-> off1, count |-> count2, output |-> o2, done |-> off1 >= Len(toks)]

\* n passes in a row, from st.
RECURSIVE WritePasses(_, _, _)
WritePasses(toks, st, n) ==
    IF n = 0 THEN st
    ELSE IF n = 1 THEN WritePass(toks, st)
    ELSE LET h == n \div 2
             half == WritePasses(toks, st, h)
         IN \* off is never negative: the test has the first half computed
            \* before the second starts.
            IF half.off >= 0 THEN WritePasses(toks, half, n - h) ELSE half

\* Lines 95-113: s[off] on an empty list raises IndexError; otherwise the loop
\* breaks after Len(toks) passes and the final newline is written.
Serialize(toks) ==
    IF Len(toks) = 0 THEN [err |-> TRUE, data |-> <<>>]
    ELSE [err |-> FALSE,
          data |-> Append(WritePasses(toks, LoopStart, Len(toks)).output, NL)]

(***************************************************************************)
(* The transport (sg_ses) as seen by set_fan_speeds                        *)
(***************************************************************************)
\* Two hex digits of a byte, as sg_ses prints a page.
HexByte(b) == <<HexDigits[(b \div 16) + 1], HexDigits[(b % 16) + 1]>>

\* Token k (0-based) of dump number sd.
DumpToken(sd, k) == HexByte((37 * k + 101 * sd + 5) % 256)

\* Whitespace in front of token k: dump 0 is laid out 16 to a line with a
\* leading blank, the others one token per line or tab-separated.
DumpGap(sd, k) ==
    IF sd = 0
    THEN IF k % 16 = 0 /\ k > 0 THEN <<NL, SP>> ELSE <<SP>>
    ELSE IF k = 0 THEN <<>> ELSE IF k % 3 = 0 THEN <<NL>> ELSE <<TAB, SP>>

DumpText(n, sd) ==
    Append(Flatten([k \in 1 .. n |-> DumpGap(sd, k - 1) \o DumpToken(sd, k - 1)], 1, n), NL)

\* Page lengths tried: around the ends of the fan slots, and every length from
\* the shortest that patches up to MaxDumpLen.
DumpLens == {0, 1, 87, 88, 89, 91, 92, 110, 111} \cup (MinPageTokens .. MaxDumpLen)

\* What check_output returns for the control-page read: the bytes, or a
\* CalledProcessError on a nonzero exit.
ReadOutcomes ==
    {[ok |-> TRUE, data |-> DumpText(n, sd)] : n \in DumpLens, sd \in 0 .. (NumSeeds - 1)}
    \cup {[ok |-> FALSE, data |-> <<>>]}

(***************************************************************************)
(* set_fan_speeds as a whole: the read, the patch, the output loop and the *)
(* write.  written says whether Popen(... --control ...) was reached.      *)
(***************************************************************************)
SetFanSpeeds(rd, sp) ==
    IF ~rd.ok
    THEN [status |-> "CalledProcessError", out |-> <<>>, s |-> <<>>,
          payload |-> <<>>, written |-> FALSE]
    ELSE LET p == Patch(Split(rd.data), sp) IN
         IF p.err
         THEN [status |-> "IndexError", out |-> rd.data, s |-> p.s,
               payload |-> <<>>, written |-> FALSE]
         ELSE LET w == Serialize(p.s) IN
              IF w.err
              THEN [status |-> "IndexError", out |-> rd.data, s |-> p.s,
                    payload |-> <<>>, written |-> FALSE]
              ELSE [status |-> "ok", out |-> rd.data, s |-> p.s,
                    payload |-> w.data, written |-> TRUE]

(***************************************************************************)
(* Specification of one set_fan_speeds call                                *)
(***************************************************************************)
EncIdle ==
    /\ out = <<>>
    /\ speed = 0
    /\ s = <<>>
    /\ payload = <<>>
    /\ status = "idle"

FanIdle ==
    /\ fan_speeds = <<>>
    /\ report = [kind |-> "idle", avg |-> 0, level |-> 0]

FindIdle ==
    /\ world = <<>>
    /\ devices = <<>>

NoArgs == [check |-> FALSE, speed |-> 0, verbose |-> FALSE, device |-> "none"]

MainIdle ==
    /\ args = NoArgs
    /\ pc = "idle"
    /\ di = 0
    /\ log = <<>>
    /\ exit_status = -1

EncInit == EncIdle /\ FanIdle /\ FindIdle /\ MainIdle

set_fan_speeds ==
    /\ status = "idle"
    /\ \E sp \in 0 .. MaxSpeed, rd \in ReadOutcomes :
          LET r == SetFanSpeeds(rd, sp) IN
          /\ speed' = sp
          /\ out' = r.out
          /\ s' = r.s
          /\ payload' = r.payload
          /\ status' = IF r.written THEN "written" ELSE r.status
    /\ UNCHANGED <<fanVars, findVars, mainVars>>

EncNext == set_fan_speeds

SpecEnc == EncInit /\ [][EncNext]_vars

(***************************************************************************)
(* Properties of set_fan_speeds                                            *)
(***************************************************************************)
\* The call read a page (the read did not fail) and has ended.
ReadSucceeded == status \notin {"idle", "CalledProcessError"}

\* C1: for a dump of at least 112 tokens the payload is submitted, has as many
\* tokens as the dump, and every token at an index outside 88..111 is the
\* token read at that index.
C1_OnlyFanSlotsDiffer ==
    (ReadSucceeded /\ Len(Split(out)) >= 112) =>
        /\ status = "written"
        /\ LET rd == Split(out)
               wr == Split(payload)
           IN /\ Len(wr) = Len(rd)
              /\ \A k \in 0 .. (Len(rd) - 1) :
                    (k < 88 \/ k > 111) => wr[k + 1] = rd[k + 1]

\* A page longer than the fan slots was written with a fan slot changed.
C1_Witness ==
    /\ status = "written"
    /\ Len(Split(out)) > 112
    /\ Split(payload)[89] # Split(out)[89]
    /\ Split(payload)[113] = Split(out)[113]

\* C2: in a written payload each of the six slots at 88 + 4i holds 80 00 00
\* and the two hex digits of 0x20 | (speed & 7).
C2_SlotBytes ==
    status = "written" =>
        LET wr == Split(payload) IN
        \A i \in 0 .. 5 :
            /\ wr[88 + 4 * i + 1] = <<"8", "0">>
            /\ wr[88 + 4 * i + 2] = <<"0", "0">>
            /\ wr[88 + 4 * i + 3] = <<"0", "0">>
            /\ wr[88 + 4 * i + 4] = <<"2", HexDigits[(speed % 8) + 1]>>

\* Speed 9 was written as 21 in the first and the last slot.
C2_Witness ==
    /\ status = "written"
    /\ speed = 9
    /\ Split(payload)[92] = <<"2", "1">>
    /\ Split(payload)[112] = <<"2", "1">>

\* The separator after the k-th token (1-based) of the layout.
LayoutSeparator(k) ==
    IF k % 16 = 0 THEN <<NL>> ELSE IF k % 8 = 0 THEN <<SP, SP>> ELSE <<SP>>

\* The layout of a token sequence: each token followed by its separator, then
\* a newline.
Layout(toks) ==
    Append(Flatten([k \in 1 .. Len(toks) |-> toks[k] \o LayoutSeparator(k)],
                   1, Len(toks)), NL)

\* C3: the payload is the token list in order, a double space after every 8th
\* token, a newline after every 16th, a single space after the others and a
\* newline at the end; splitting it gives the token list back.
C3_LayoutRoundTrip ==
    status = "written" =>
        /\ payload = Layout(s)
        /\ Split(payload) = s

\* A page whose length is 8 past a multiple of 16 was written: the payload
\* ends with a token, the double space and the closing newline.
C3_Witness ==
    /\ status = "written"
    /\ Len(s) % 16 = 8
    /\ SubSeq(payload, Len(payload) - 2, Len(payload)) = <<SP, SP, NL>>

\* C10: a page of fewer than 112 tokens ends the call with IndexError and
\* nothing is written.
C10_ShortPageNotWritten ==
    (ReadSucceeded /\ Len(Split(out)) < 112) =>
        /\ status = "IndexError"
        /\ payload = <<>>

\* A page of 110 tokens: five slots and half of the sixth were patched in
\* memory when the call failed.
C10_Witness ==
    /\ status = "IndexError"
    /\ Len(Split(out)) = 110
    /\ s # Split(out)
    /\ payload = <<>>

(***************************************************************************)
(* print_speeds                                                            *)
(***************************************************************************)
DecDigits == <<"0", "1", "2", "3", "4", "5", "6", "7", "8", "9">>

\* The decimal text of n, as sg_ses prints an element field.
RECURSIVE FormatDec(_)
FormatDec(n) ==
    IF n < 10 THEN <<DecDigits[n + 1]>>
    ELSE Append(FormatDec(n \div 10), DecDigits[(n % 10) + 1])

\* str.isdigit(): non-empty and decimal digits only.
IsDigit(str) ==
    /\ Len(str) > 0
    /\ \A i \in 1 .. Len(str) : \E d \in 1 .. 10 : str[i] = DecDigits[d]

DigitValue(c) == (CHOOSE d \in 1 .. 10 : DecDigits[d] = c) - 1

\* int(str) of a string of digits.
RECURSIVE ParseInt(_)
ParseInt(str) ==
    IF Len(str) = 0 THEN 0
    ELSE 10 * ParseInt(SubSeq(str, 1, Len(str) - 1)) + DigitValue(str[Len(str)])

\* Line 31: int(fan_speed) if fan_speed.isdigit() else 0.
FanValue(str) == IF IsDigit(str) THEN ParseInt(str) ELSE 0

fan_speed_levels == <<550, 925, 1100, 1250, 1400, 1575, 1700>>
LevelTolerance == 50

RECURSIVE SumSeq(_)
SumSeq(q) == IF Len(q) = 0 THEN 0 ELSE q[1] + SumSeq(Tail(q))

\* Line 34: the speeds > 0, in order.
ActiveFanSpeeds(speeds) == SelectSeq(speeds, LAMBDA v : v > 0)

\* Line 36: int(sum / len) of positive integers.
AverageSpeed(active) == SumSeq(active) \div Len(active)

\* The half-open window, as a test with < would make it.
InWindowExclusive(avg, rpm) == avg - LevelTolerance < rpm /\ rpm < avg + LevelTolerance

\* Line 39: average_speed - 50 <= rpm <= average_speed + 50.
InWindow(avg, rpm) == avg - LevelTolerance <= rpm /\ rpm <= avg + LevelTolerance

\* Lines 38-43: the for loop with its break and its else branch.
RECURSIVE ScanLevels(_, _)
ScanLevels(avg, level) ==
    IF level > Len(fan_speed_levels)
    THEN [kind |-> "undetermined", avg |-> avg, level |-> 0]
    ELSE IF InWindow(avg, fan_speed_levels[level])
         THEN [kind |-> "level", avg |-> avg, level |-> level]
         ELSE ScanLevels(avg, level + 1)

\* Lines 34-43: nothing is printed about the average when no fan is active.
Classify(speeds) ==
    LET active == ActiveFanSpeeds(speeds) IN
    IF Len(active) = 0 THEN [kind |-> "none", avg |-> 0, level |-> 0]
    ELSE ScanLevels(AverageSpeed(active), 1)

\* The answer of sg_ses to one --get query: the first line of its output, or
\* Failed for a nonzero exit (check_output raises CalledProcessError).
Failed == <<"!">>

\* The position of the first failed query, 0 when none failed.
FirstFailure(answers) ==
    IF \E i \in 1 .. Len(answers) : answers[i] = Failed
    THEN CHOOSE i \in 1 .. Len(answers) :
            answers[i] = Failed /\ \A j \in 1 .. (i - 1) : answers[j] # Failed
    ELSE 0

\* print_speeds as a whole, given the answers the six queries would get:
\* queries is the number of queries issued, raised whether the call ended
\* with CalledProcessError.
PrintSpeeds(answers) ==
    LET f == FirstFailure(answers) IN
    IF f # 0
    THEN [raised |-> TRUE, queries |-> f,
          fan_speeds |-> [i \in 1 .. (f - 1) |-> FanValue(answers[i])],
          report |-> [kind |-> "raised", avg |-> 0, level |-> 0]]
    ELSE LET speeds == [i \in 1 .. NumFans |-> FanValue(answers[i])] IN
         [raised |-> FALSE, queries |-> NumFans, fan_speeds |-> speeds,
          report |-> Classify(speeds)]

\* Answers tried: not a number, a negative number, zero, and speeds whose
\* means fall on, inside and just outside the windows.
FanAnswers ==
    {<<>>, <<"-", "5">>, Failed}
    \cup {FormatDec(n) : n \in {0, 600, 1190, 1200, 1210, 1301}}

(***************************************************************************)
(* Specification of one print_speeds call                                  *)
(***************************************************************************)
FanInit == EncIdle /\ FanIdle /\ FindIdle /\ MainIdle

print_speeds ==
    /\ report.kind = "idle"
    /\ \E answers \in [1 .. NumFans -> FanAnswers] :
          LET r == PrintSpeeds(answers) IN
          /\ fan_speeds' = r.fan_speeds
          /\ report' = r.report
    /\ UNCHANGED <<encVars, findVars, mainVars>>

FanNext == print_speeds

SpecFan == FanInit /\ [][FanNext]_vars

(***************************************************************************)
(* Properties of print_speeds                                              *)
(***************************************************************************)
\* The reading counted in the mean: itself when > 0, else nothing.
ActiveReading(v) == IF v > 0 THEN v ELSE 0
ActiveCount(v) == IF v > 0 THEN 1 ELSE 0

\* C6: with no reading > 0 no level is reported; otherwise the mean of the
\* readings > 0, truncated, is reported with the 1-based position of the first
\* of 550, 925, 1100, 1250, 1400, 1575, 1700 within 50 of it (bounds included),
\* and as undetermined when there is none.
C6_LevelClassification ==
    (report.kind \in {"none", "level", "undetermined"}) =>
        LET f == fan_speeds
            n == ActiveCount(f[1]) + ActiveCount(f[2]) + ActiveCount(f[3])
                 + ActiveCount(f[4]) + ActiveCount(f[5]) + ActiveCount(f[6])
            total == ActiveReading(f[1]) + ActiveReading(f[2]) + ActiveReading(f[3])
                     + ActiveReading(f[4]) + ActiveReading(f[5]) + ActiveReading(f[6])
            mids == <<550, 925, 1100, 1250, 1400, 1575, 1700>>
        IN IF n = 0 THEN report.kind = "none"
           ELSE LET mean == total \div n
                    hits == {l \in 1 .. 7 : mean - 50 <= mids[l] /\ mids[l] <= mean + 50}
                IN /\ report.avg = mean
                   /\ IF hits = {} THEN report.kind = "undetermined"
                      ELSE /\ report.kind = "level"
                           /\ report.level \in hits
                           /\ \A l \in hits : report.level <= l

\* Readings 1200, 1210, 1190, 0, 0, 0 were classified: mean 1200, level 4.
C6_Witness ==
    /\ fan_speeds = <<1200, 1210, 1190, 0, 0, 0>>
    /\ report = [kind |-> "level", avg |-> 1200, level |-> 4]

(***************************************************************************)
(* find_sa120_devices                                                      *)
(***************************************************************************)
devices_to_check == <<"/dev/sg*", "/dev/ses*", "/dev/bsg/*", "/dev/es/ses*">>

\* The device nodes of the model and the pattern (a position in
\* devices_to_check) each one matches.
PathNames == <<"/dev/sg0", "/dev/sg1", "/dev/ses0", "/dev/bsg/0:0:0:0", "/dev/es/ses0">>
PathPattern == <<1, 1, 2, 3, 4>>

\* os.major and os.minor of a device number below 2^20.
Major(rdev) == (rdev \div 256) % 4096
Minor(rdev) == rdev % 256

\* Line 78: '{},{}'.format(os.major(stats.st_rdev), os.minor(stats.st_rdev)).
format_device_id(rdev) == FormatDec(Major(rdev)) \o <<",">> \o FormatDec(Minor(rdev))

\* A node of the file system: absent (no pattern yields it), or yielded by
\* glob with what os.stat answers (mode "ENOENT" when it has vanished, "chr"
\* for a character device, "blk" for another kind of node), its device number
\* and what sg_ses answers when asked about it ("sa120": the signature is in
\* the output, "other": it is not, "error": nonzero exit).
NodeStates(name) ==
    {[path |-> name, present |-> FALSE, mode |-> "ENOENT", rdev |-> 0, probe |-> "error"],
     [path |-> name, present |-> TRUE, mode |-> "ENOENT", rdev |-> 0, probe |-> "error"]}
    \cup {[path |-> name, present |-> TRUE, mode |-> m, rdev |-> r, probe |-> a] :
            m \in {"chr", "blk"}, r \in {21 * 256, 21 * 256 + 1},
            a \in {"sa120", "other", "error"}}

\* The file systems over the first n nodes.
RECURSIVE FileSystems(_)
FileSystems(n) ==
    IF n = 0 THEN {<<>>}
    ELSE {Append(fs, node) : fs \in FileSystems(n - 1), node \in NodeStates(PathNames[n])}

\* Lines 50-51: the nodes glob yields, pattern by pattern.
GlobAll(fs) ==
    Flatten([g \in 1 .. Len(devices_to_check) |->
                SelectSeq(fs, LAMBDA node : node.present /\ PathPattern[
                    CHOOSE k \in 1 .. Len(PathNames) : PathNames[k] = node.path] = g)],
            1, Len(devices_to_check))

\* The set that never remembers an identity.
SeenForgets(seen, device_id) == seen

\* Line 63: seen_devices.add(device_id).
SeenAdd(seen, device_id) == seen \cup {device_id}

\* An sg_ses command as the log keeps it.
Command(cmd, device, index, data, ok) ==
    [cmd |-> cmd, device |-> device, index |-> index, data |-> data, ok |-> ok]

\* Lines 51-73 for the nodes found[i..], with the lists built so far.
RECURSIVE FindFrom(_, _, _, _, _)
FindFrom(found, i, devs, seen, cmds) ==
    IF i > Len(found) THEN [devices |-> devs, seen |-> seen, cmds |-> cmds]
    ELSE LET node == found[i] IN
         IF node.mode = "ENOENT" THEN FindFrom(found, i + 1, devs, seen, cmds)
         ELSE IF node.mode # "chr" THEN FindFrom(found, i + 1, devs, seen, cmds)
         ELSE LET device_id == format_device_id(node.rdev) IN
              IF device_id \in seen THEN FindFrom(found, i + 1, devs, seen, cmds)
              ELSE FindFrom(found, i + 1,
                            IF node.probe = "sa120" THEN Append(devs, node.path) ELSE devs,
                            SeenAdd(seen, device_id),
                            Append(cmds, Command("inquiry", node.path, -1, <<>>,
                                                 node.probe # "error")))

find_sa120_devices(fs) == FindFrom(GlobAll(fs), 1, <<>>, {}, <<>>)

(***************************************************************************)
(* Specification of one find_sa120_devices call                            *)
(***************************************************************************)
FindInit == EncIdle /\ FanIdle /\ FindIdle /\ MainIdle

find ==
    /\ world = <<>>
    /\ log = <<>>
    /\ \E fs \in FileSystems(MaxPaths) :
          LET r == find_sa120_devices(fs) IN
          /\ world' = GlobAll(fs)
          /\ devices' = r.devices
          /\ log' = r.cmds
    /\ UNCHANGED <<encVars, fanVars, args, pc, di, exit_status>>

FindNext == find

SpecFind == FindInit /\ [][FindNext]_vars

(***************************************************************************)
(* Properties of find_sa120_devices                                        *)
(***************************************************************************)
\* The (major, minor) pair of a node.
IdentityKey(node) == <<(node.rdev \div 256) % 4096, node.rdev % 256>>

\* The position in the scan of the node with this path.
PositionOf(path) == CHOOSE i \in 1 .. Len(world) : world[i].path = path

\* The devices returned are nodes of the scan.
ReturnedWereScanned ==
    \A a \in 1 .. Len(devices) : \E i \in 1 .. Len(world) : world[i].path = devices[a]

\* No two returned devices have the same (major, minor) pair.
NoTwoWithOneKey ==
    \A a, b \in 1 .. Len(devices) :
        a # b => IdentityKey(world[PositionOf(devices[a])])
                    # IdentityKey(world[PositionOf(devices[b])])

\* C4 as stated: no two returned paths have equal keys, and a returned path is
\* the first one of the scan among the paths os.stat answered for that have
\* its (major, minor) pair.
C4_FirstDiscoveredOfKey ==
    /\ ReturnedWereScanned
    /\ NoTwoWithOneKey
    /\ \A a \in 1 .. Len(devices) :
          LET p == PositionOf(devices[a]) IN
          \A j \in 1 .. (p - 1) :
              world[j].mode # "ENOENT" => IdentityKey(world[j]) # IdentityKey(world[p])

\* C4 amended: no two returned paths have equal keys, and a returned path is
\* the first one of the scan among the character devices with its
\* (major, minor) pair; a node that is not a character device neither is
\* returned nor keeps a later node with its device number out.
C4_FirstCharDeviceOfKey ==
    /\ ReturnedWereScanned
    /\ NoTwoWithOneKey
    /\ \A a \in 1 .. Len(devices) :
          LET p == PositionOf(devices[a]) IN
          /\ world[p].mode = "chr"
          /\ \A j \in 1 .. (p - 1) :
                world[j].mode = "chr" => IdentityKey(world[j]) # IdentityKey(world[p])

\* Two character devices with one (major, minor) pair were scanned, both
\* answering as an SA120, and only the first was returned.
C4_Witness ==
    /\ Len(world) >= 2
    /\ world[1].mode = "chr" /\ world[2].mode = "chr"
    /\ world[1].probe = "sa120" /\ world[2].probe = "sa120"
    /\ IdentityKey(world[1]) = IdentityKey(world[2])
    /\ devices = <<world[1].path>>

(***************************************************************************)
(* main                                                                    *)
(***************************************************************************)
\* Line 126: choices=range(1, 8).
SpeedChoices == 1 .. 7

\* Lines 123-128.  speed 0 stands for None; device holds the path named with
\* -d, "none" without it.
ArgChoices ==
    {[check |-> c, speed |-> sp, verbose |-> v, device |-> d] :
        c \in BOOLEAN, sp \in {0} \cup SpeedChoices, v \in BOOLEAN,
        d \in {"none"} \cup {PathNames[i] : i \in 1 .. MainPaths}}

\* The control pages a read may return in a run: one token short of the fan
\* slots, exactly the fan slots, one token more; or a nonzero exit.
MainReadOutcomes ==
    {[ok |-> TRUE, data |-> DumpText(111, 0)],
     [ok |-> TRUE, data |-> DumpText(112, 0)],
     [ok |-> TRUE, data |-> DumpText(113, 1)],
     [ok |-> FALSE, data |-> <<>>]}

\* set_fan_speeds on each of them, computed once.
SetFanSpeedsOf ==
    [rd \in MainReadOutcomes, sp \in SpeedChoices |-> SetFanSpeeds(rd, sp)]

\* The answers the six queries of one print_speeds call may get in a run: the
\* same answer for all, but for one failed query at most.
MainAnswerLists ==
    {[i \in 1 .. NumFans |-> IF i = f THEN Failed ELSE a] :
        f \in 0 .. NumFans, a \in {<<>>, FormatDec(1200)}}

\* The commands of one print_speeds call.
QueryCommands(device, answers, r) ==
    [i \in 1 .. r.queries |-> Command("get_fan", device, i - 1, <<>>, answers[i] # Failed)]

\* The commands of a set_fan_speeds call that writes twice.
SetCommandsTwice(device, rd, r) ==
    <<Command("read_page", device, -1, rd.data, rd.ok)>>
    \o (IF r.written THEN <<Command("write_page", device, -1, r.payload, TRUE),
                            Command("write_page", device, -1, r.payload, TRUE)>>
        ELSE <<>>)

\* The commands of one set_fan_speeds call: the read (line 82) and, when the
\* call gets there, the write (lines 114-119), whose exit status is not looked at.
SetCommands(device, rd, r) ==
    <<Command("read_page", device, -1, rd.data, rd.ok)>>
    \o (IF r.written THEN <<Command("write_page", device, -1, r.payload, TRUE)>> ELSE <<>>)

MainInit ==
    /\ EncIdle /\ FanIdle /\ FindIdle
    /\ args \in ArgChoices
    /\ pc = "find"
    /\ di = 0
    /\ log = <<>>
    /\ exit_status = -1

\* Lines 130-135, 138, 146: discovery, sys.exit(1) on an empty list, else the
\* choice of the branch.
main_find ==
    /\ pc = "find"
    /\ \E fs \in FileSystems(MainPaths) :
          LET r == find_sa120_devices(fs) IN
          /\ devices' = r.devices
          /\ log' = r.cmds
          /\ IF Len(r.devices) = 0
             THEN pc' = "exited" /\ exit_status' = 1 /\ di' = 0
             ELSE /\ pc' = IF args.check THEN "check"
                           ELSE IF args.speed # 0 THEN "set" ELSE "help"
                  /\ di' = 1
                  /\ exit_status' = -1
    /\ UNCHANGED <<encVars, fanVars, world, args>>

\* Lines 136-137: print_speeds on the next device; an exception it raises
\* ends the process with status 1.
main_check ==
    /\ pc = "check"
    /\ \E answers \in MainAnswerLists :
          LET r == PrintSpeeds(answers) IN
          /\ log' = log \o QueryCommands(devices[di], answers, r)
          /\ IF r.raised
             THEN pc' = "raised" /\ exit_status' = 1 /\ di' = di
             ELSE IF di = Len(devices)
                  THEN pc' = "exited" /\ exit_status' = 0 /\ di' = di
                  ELSE pc' = "check" /\ exit_status' = -1 /\ di' = di + 1
    /\ UNCHANGED <<encVars, fanVars, findVars, args>>

\* Lines 139-143: set_fan_speeds on the next device; after the last one the
\* run ends, or sleeps and goes on to report the speeds when verbose.
main_set ==
    /\ pc = "set"
    /\ \E rd \in MainReadOutcomes :
          LET r == SetFanSpeedsOf[rd, args.speed] IN
          /\ log' = log \o SetCommands(devices[di], rd, r)
          /\ IF ~r.written
             THEN pc' = "raised" /\ exit_status' = 1 /\ di' = di
             ELSE IF di < Len(devices)
                  THEN pc' = "set" /\ exit_status' = -1 /\ di' = di + 1
                  ELSE IF args.verbose
                       THEN pc' = "verify" /\ exit_status' = -1 /\ di' = 1
                       ELSE pc' = "exited" /\ exit_status' = 0 /\ di' = di
    /\ UNCHANGED <<encVars, fanVars, findVars, args>>

\* Lines 144-145: print_speeds on the next device after the sleep.
main_verify ==
    /\ pc = "verify"
    /\ \E answers \in MainAnswerLists :
          LET r == PrintSpeeds(answers) IN
          /\ log' = log \o QueryCommands(devices[di], answers, r)
          /\ IF r.raised
             THEN pc' = "raised" /\ exit_status' = 1 /\ di' = di
             ELSE IF di = Len(devices)
                  THEN pc' = "exited" /\ exit_status' = 0 /\ di' = di
                  ELSE pc' = "verify" /\ exit_status' = -1 /\ di' = di + 1
    /\ UNCHANGED <<encVars, fanVars, findVars, args>>

\* Lines 146-147: neither -c nor -s: the usage text, and a normal return.
main_help ==
    /\ pc = "help"
    /\ pc' = "exited"
    /\ exit_status' = 0
    /\ UNCHANGED <<encVars, fanVars, findVars, args, di, log>>

Next == main_find \/ main_check \/ main_set \/ main_verify \/ main_help

Spec == MainInit /\ [][Next]_vars

(***************************************************************************)
(* Properties of a run                                                     *)
(***************************************************************************)
Ended == pc \in {"exited", "raised"}

\* The commands that act on an enclosure's fans.
FanCommands == {"get_fan", "read_page", "write_page"}

\* How many commands cmd the run has sent to device.
CountOf(cmd, device) ==
    Cardinality({j \in 1 .. Len(log) : log[j].cmd = cmd /\ log[j].device = device})

MatchedDevices == {devices[a] : a \in 1 .. Len(devices)}

\* C5: a failed transport command never keeps the rest of the run from being
\* done: a run that has ended failed only if no enclosure was found, a check
\* run has queried the six fans of every matched enclosure, and a set-speed
\* run has read the control page of every matched enclosure.
C5_FailuresContained ==
    Ended =>
        /\ exit_status # 0 => Len(devices) = 0
        /\ args.check =>
              \A d \in MatchedDevices : \A i \in 0 .. 5 :
                  \E j \in 1 .. Len(log) :
                      log[j].cmd = "get_fan" /\ log[j].device = d /\ log[j].index = i
        /\ (~args.check /\ args.speed # 0) =>
              \A d \in MatchedDevices : CountOf("read_page", d) >= 1

\* C7: with -d given, every fan query, control-page read and control-page
\* write goes to the named device.
C7_OnlyNamedDevice ==
    args.device # "none" =>
        \A j \in 1 .. Len(log) :
            log[j].cmd \in FanCommands => log[j].device = args.device

\* C8: a run ends with status 1 when no enclosure was found and with status 0
\* otherwise, and with no enclosure found it ends at once, having sent no fan
\* query, control-page read or control-page write.
C8_ExitStatus ==
    /\ Ended => exit_status = (IF Len(devices) = 0 THEN 1 ELSE 0)
    /\ (pc # "find" /\ Len(devices) = 0) =>
          /\ Ended
          /\ \A j \in 1 .. Len(log) : log[j].cmd \notin FanCommands

\* Every write comes right after a successful read of the same device, and
\* its tokens are those of that read except in the fan slots 88..111.
WriteFollowsItsRead ==
    \A j \in 1 .. Len(log) :
        log[j].cmd = "write_page" =>
            /\ j > 1
            /\ log[j - 1].cmd = "read_page"
            /\ log[j - 1].device = log[j].device
            /\ log[j - 1].ok
            /\ LET rd == Split(log[j - 1].data)
                   wr == Split(log[j].data)
               IN /\ Len(wr) = Len(rd)
                  /\ \A k \in 0 .. (Len(rd) - 1) :
                        IF k < 88 \/ k > 111 THEN wr[k + 1] = rd[k + 1]
                        ELSE wr[k + 1] = (IF k % 4 = 0 THEN <<"8", "0">>
                                          ELSE IF k % 4 = 3
                                               THEN <<"2", HexDigits[(args.speed % 8) + 1]>>
                                               ELSE <<"0", "0">>)

\* Reads and writes go to matched enclosures only, and only in a set-speed run.
OnlySetRunsTouchPages ==
    \A j \in 1 .. Len(log) :
        log[j].cmd \in {"read_page", "write_page"} =>
            /\ ~args.check /\ args.speed # 0
            /\ log[j].device \in MatchedDevices

ReadPatchable(d) ==
    \E j \in 1 .. Len(log) :
        /\ log[j].cmd = "read_page" /\ log[j].device = d /\ log[j].ok
        /\ Len(Split(log[j].data)) >= 112

====
